---------------------------- MODULE Spec2Model ----------------------------
(***************************************************************************)
(* Cyberwall: two linear actuators tilting a wall, kept in step from the   *)
(* pulse counts of their hall sensors (src/src/main.cpp).                  *)
(*                                                                         *)
(* Target: an 8-bit AVR Arduino (hall sensors on the external-interrupt    *)
(* pins 2 and 3, PWM on pins 5, 6, 9 and 10).  On it                       *)
(*   - int is 16 bits and long is 32 bits;                                 *)
(*   - an interrupt handler runs with interrupts disabled: counter_0 and   *)
(*     counter_1 are atomic with respect to the main loop and each other,  *)
(*     and millis() does not advance inside a handler;                     *)
(*   - the main loop reads or writes a `volatile long` one byte at a time, *)
(*     and a handler can run between two of those byte accesses.  The      *)
(*     order of the four byte accesses is the compiler's choice: lowest    *)
(*     byte first or highest byte first, both allowed here.                *)
(*                                                                         *)
(* Time.  The handlers use the clock only in millis()-lastDebounceTime[i], *)
(* and moveToLimit only through the elapsedMillis object timeElapsed.  The *)
(* state holds those two elapsed times; Tick advances both.  An elapsed    *)
(* time is kept exactly up to a cap above every constant it is compared    *)
(* with (MaxElapsed, DWELL_MS) and held there: the 2^32 ms wrap of the     *)
(* clock is beyond the time the model runs.  timeElapsed is dead outside   *)
(* the busy-wait (moveToLimit zeroes it before it reads it): it advances   *)
(* only there.  The wrap of the clock is the subject of SpecWrap, where    *)
(* the handlers run on millisNow and lastDebounceTime, counters modulo     *)
(* ClockModulus.                                                           *)
(* Main-loop code other than the busy-wait of moveToLimit takes well under *)
(* a millisecond: the clock advances while the main loop is between calls  *)
(* or in the busy-wait.  Sensor edges arrive anywhere.                     *)
(*                                                                         *)
(* Not modelled: Serial output and lastLogTime (logActuatorStatus reads    *)
(* and writes nothing any other operation reads), pin configuration.       *)
(* loop() is empty in the source: the calls of driveActuators and          *)
(* moveToLimit and the writes of direction come from the command           *)
(* dispatcher, which is the environment here.                              *)
(***************************************************************************)
EXTENDS Integers, FiniteSets, TLC

\* ------------------------------------------------------------ constants
NUMBER_OF_ACTUATORS == 2
FALSE_PULSE_DELAY == 8
BASE_SPEED == 100
OFFSET_MULTIPLIER == 5
PWM_MAX == 255
DWELL_MS == 200
IntModulus == 65536
LongBytes == 4

\* ------------------------------------------------------------ bounds
\* elapsed debounce times are exact below MaxElapsed, which stands for
\* "MaxElapsed ms or more"
MaxElapsed == 12
\* accepted sensor edges in one run
MaxAccepted == 2
\* calls of driveActuators and moveToLimit in one run
MaxCalls == 2
\* the values of the millisecond counter of the handlers' wrapping clock:
\* stands for 2^32, the width of unsigned long
ClockModulus == 16

Actuators == 0 .. (NUMBER_OF_ACTUATORS - 1)
Directions == {-1, 0, 1}
ByteIdx == 0 .. (LongBytes - 1)
\* the speeds the dispatcher passes to moveToLimit
SpeedArgs == {150, 300}

VARIABLES
  \* ---- the program's globals and the hardware
  steps,            \* actuators[i].steps      (volatile long)
  prevSteps,        \* actuators[i].prevSteps  (volatile long)
  speed,            \* actuators[i].speed      (int)
  direction,        \* direction               (int)
  debounceElapsed,  \* millis() - lastDebounceTime[i], held at MaxElapsed
  timeElapsed,      \* the elapsedMillis object, held at DWELL_MS
  fpwm,             \* last value given to analogWrite(FPWM[i], .)
  rpwm,             \* last value given to analogWrite(RPWM[i], .)
  \* ---- the main loop's position and locals
  pc,               \* where the main loop is
  idx,              \* the loop variable i
  totalSteps,       \* driveActuators' totalSteps
  avgSteps,         \* driveActuators' avgSteps
  argSpeed,         \* moveToLimit's parameter speed
  got,              \* bytes of the long access in progress already moved
  val,              \* value assembled so far by the load in progress
  \* ---- observers (not program state)
  nAccepted,        \* accepted edges so far (bounds the run)
  nCalls,           \* calls made so far (bounds the run)
  counted,          \* per actuator: sum of direction over the edges accepted
                    \* since the last store of 0 to steps[i] began
  edgeSeen,         \* per actuator: toggles at each handler invocation
  sinceAccept,      \* per actuator: ms since its last accepted edge, or
                    \* since start-up; held at MaxElapsed
  hadAccept,        \* per actuator: some edge was accepted
  scen,             \* progress of actuator 0 through "an accepted edge,
                    \* an edge 5 ms later, an edge 10 ms after the first":
                    \* 1 after the first, 2 after the second was discarded,
                    \* 3 after the third was accepted
  winEdge,          \* a sensor edge arrived in the current dwell window
  iterMoved,        \* an edge was accepted under a non-zero direction
                    \* since the current iteration's snapshot began
  lateMoved,        \* per actuator: such an edge after its snapshot was
                    \* taken and before the check began to read it
  verdict,          \* the last check of moveToLimit: "none", or its result
                    \* with winEdge, iterMoved, lateMoved, checkMoved,
                    \* quietCheck and the parameter speed as they were
  checkMoved,       \* per actuator: an edge was accepted under a non-zero
                    \* direction after the check began to read its steps
  quietCheck,       \* a check has completed since the last accepted edge
  tickSteps,        \* steps as it was when the driveActuators call under
                    \* way began (all 0 between calls)
  settled,          \* "yes": a whole driveActuators call has run and
                    \* since it began no edge was accepted, direction was
                    \* not changed and moveToLimit was not called
  returned,         \* "drive" / "limit": that call has just returned and
                    \* the dispatcher has done nothing since; else "none"
  \* ---- the handlers against the wrapping clock
  millisNow,        \* millis(), an unsigned counter modulo ClockModulus
  lastDebounceTime  \* lastDebounceTime[i], as the handlers store it

shared == <<steps, prevSteps, speed, direction, debounceElapsed, timeElapsed,
            fpwm, rpwm>>
locals == <<pc, idx, totalSteps, avgSteps, argSpeed, got, val>>
pulseObs == <<edgeSeen, sinceAccept, hadAccept, scen>>
homingObs == <<winEdge, iterMoved, lateMoved, verdict>>
checkObs == <<checkMoved, quietCheck>>
wrapClock == <<millisNow, lastDebounceTime>>
vars == <<shared, locals, nAccepted, nCalls, counted, pulseObs, homingObs, checkObs,
          tickSteps, settled, returned, wrapClock>>

\* ------------------------------------------------------------ arithmetic
Min(a, b) == IF a < b THEN a ELSE b

\* conversion to int, and int arithmetic: 16 bits, two's complement
ToInt(x) == ((x + IntModulus \div 2) % IntModulus) - IntModulus \div 2

\* Arduino.h: #define abs(x) ((x)>0?(x):-(x)), on an int
AbsInt(x) == IF x > 0 THEN x ELSE ToInt(-x)

\* Arduino.h: #define min(a,b) ((a)<(b)?(a):(b))
MinInt(a, b) == IF a < b THEN a ELSE b

\* C++ integer division: the quotient truncated toward zero
TruncDiv(a, b) == IF a >= 0 THEN a \div b ELSE -((-a) \div b)

\* the average with the quotient rounded down instead of toward zero
AvgFloored(total) == total \div NUMBER_OF_ACTUATORS

\* long avgSteps = totalSteps / NUMBER_OF_ACTUATORS
AvgOf(total) == TruncDiv(total, NUMBER_OF_ACTUATORS)

\* int offset = (avgSteps - actuators[i].steps) * OFFSET_MULTIPLIER * direction
OffsetOf(avg, s, dir) == ToInt((avg - s) * OFFSET_MULTIPLIER * dir)

\* the offset added to the actuator's previous speed instead of BASE_SPEED
SpeedAccumulated(avg, s, dir) ==
  MinInt(AbsInt(ToInt(speed[idx] + OffsetOf(avg, s, dir))), PWM_MAX)

\* actuators[i].speed = min(abs(BASE_SPEED + offset), 255)
SpeedOf(avg, s, dir) ==
  MinInt(AbsInt(ToInt(BASE_SPEED + OffsetOf(avg, s, dir))), PWM_MAX)

\* ---- a long in memory: four bytes, two's complement
Pow256(k) == CASE k = 0 -> 1 [] k = 1 -> 256 [] k = 2 -> 65536 [] OTHER -> 16777216
ByteOf(v, k) == (v \div Pow256(k)) % 256
\* what byte k of v adds to v's value (the top byte carries the sign)
Contribution(v, k) ==
  IF k = LongBytes - 1 /\ ByteOf(v, k) >= 128
    THEN (ByteOf(v, k) - 256) * Pow256(k)
    ELSE ByteOf(v, k) * Pow256(k)
\* v after a store of 0 to its byte k
ClearByte(v, k) == v - Contribution(v, k)


\* ------------------------------------------------------------ the clock
\* dt ms pass: every elapsed time grows by dt, up to its cap
Tick(dt) ==
  /\ pc \in {"idle", "mtl_dwell"}
  /\ debounceElapsed' =
       [n \in Actuators |-> Min(debounceElapsed[n] + dt, MaxElapsed)]
  /\ timeElapsed' = IF pc = "mtl_dwell"
                      THEN Min(timeElapsed + dt, DWELL_MS)
                      ELSE timeElapsed
  /\ UNCHANGED <<steps, prevSteps, speed, direction, fpwm, rpwm>>
  /\ UNCHANGED locals

\* ------------------------------------------------------------ interrupt handlers
\* the comparison inverted
AcceptsInverted(n) == debounceElapsed[n] < FALSE_PULSE_DELAY
\* the comparison not strict
AcceptsAtDelay(n) == debounceElapsed[n] >= FALSE_PULSE_DELAY

\* millis() - lastDebounceTime[n] > FALSE_PULSE_DELAY
Accepts(n) == debounceElapsed[n] > FALSE_PULSE_DELAY

\* the body shared by counter_0 and counter_1
Counter(n) ==
  /\ IF Accepts(n)
       THEN /\ debounceElapsed' = [debounceElapsed EXCEPT ![n] = 0]
            /\ steps' = [steps EXCEPT ![n] = @ + direction]
       ELSE UNCHANGED <<debounceElapsed, steps>>
  /\ UNCHANGED <<prevSteps, speed, direction, timeElapsed, fpwm, rpwm>>
  /\ UNCHANGED locals

counter_0 == Counter(0)
counter_1 == Counter(1)

\* ------------------------------------------------------------ the dispatcher
\* the command dispatcher writes direction between calls
SetDirection(d) ==
  /\ pc = "idle"
  /\ direction' = d
  /\ UNCHANGED <<steps, prevSteps, speed, debounceElapsed, timeElapsed, fpwm, rpwm>>
  /\ UNCHANGED locals

\* ------------------------------------------------------------ long accesses
\* the bytes the access in progress may move next: it starts at either end
NextBytes ==
  IF got = {} THEN {0, LongBytes - 1}
  ELSE IF 0 \in got THEN {Cardinality(got)}
  ELSE {LongBytes - 1 - Cardinality(got)}
\* the access in progress moves byte k last
LastByte(k) == got \cup {k} = ByteIdx
\* the load in progress of steps[idx], after it has moved byte k
Loaded(k) == val + Contribution(steps[idx], k)

\* ------------------------------------------------------------ driveActuators
CallDrive ==
  /\ pc = "idle"
  /\ pc' = "drv_sum"
  /\ idx' = 0
  /\ totalSteps' = 0
  /\ UNCHANGED <<avgSteps, argSpeed, got, val>>
  /\ UNCHANGED shared

\* totalSteps += actuators[i].steps, one byte of steps[i] per step; after the
\* last actuator, avgSteps = totalSteps / NUMBER_OF_ACTUATORS
driveActuators_sum(k) ==
  /\ pc = "drv_sum"
  /\ k \in NextBytes
  /\ IF ~LastByte(k)
       THEN /\ got' = got \cup {k}
            /\ val' = Loaded(k)
            /\ UNCHANGED <<pc, idx, totalSteps, avgSteps>>
       ELSE /\ got' = {}
            /\ val' = 0
            /\ totalSteps' = totalSteps + Loaded(k)
            /\ IF idx + 1 < NUMBER_OF_ACTUATORS
                 THEN /\ idx' = idx + 1
                      /\ UNCHANGED <<pc, avgSteps>>
                 ELSE /\ idx' = 0
                      /\ avgSteps' = AvgOf(totalSteps')
                      /\ pc' = "drv_off"
  /\ UNCHANGED argSpeed
  /\ UNCHANGED shared

\* offset from a second read of steps[i], then actuators[i].speed
driveActuators_offset(k) ==
  /\ pc = "drv_off"
  /\ k \in NextBytes
  /\ IF ~LastByte(k)
       THEN /\ got' = got \cup {k}
            /\ val' = Loaded(k)
            /\ UNCHANGED <<pc, speed>>
       ELSE /\ got' = {}
            /\ val' = 0
            /\ speed' = [speed EXCEPT ![idx] = SpeedOf(avgSteps, Loaded(k), direction)]
            /\ pc' = "drv_w1"
  /\ UNCHANGED <<idx, totalSteps, avgSteps, argSpeed>>
  /\ UNCHANGED <<steps, prevSteps, direction, debounceElapsed, timeElapsed, fpwm, rpwm>>

\* the default case falling into the forward case
SwitchForwardByDefault(dir, sp) == IF dir = -1 THEN 0 ELSE sp

\* switch (direction): what each case gives to analogWrite(FPWM[i], .)
SwitchForward(dir, sp) == IF dir = 1 THEN sp ELSE 0
\* switch (direction): what each case gives to analogWrite(RPWM[i], .)
SwitchReverse(dir, sp) == IF dir = -1 THEN sp ELSE 0

\* the first analogWrite of the switch: always to FPWM[i]
driveActuators_write1 ==
  /\ pc = "drv_w1"
  /\ fpwm' = [fpwm EXCEPT ![idx] = SwitchForward(direction, speed[idx])]
  /\ pc' = "drv_w2"
  /\ UNCHANGED <<idx, totalSteps, avgSteps, argSpeed, got, val>>
  /\ UNCHANGED <<steps, prevSteps, speed, direction, debounceElapsed, timeElapsed, rpwm>>

\* the second analogWrite of the switch: always to RPWM[i]; then the next
\* actuator, or logActuatorStatus and the return
driveActuators_write2 ==
  /\ pc = "drv_w2"
  /\ rpwm' = [rpwm EXCEPT ![idx] = SwitchReverse(direction, speed[idx])]
  /\ IF idx + 1 < NUMBER_OF_ACTUATORS
       THEN /\ idx' = idx + 1
            /\ pc' = "drv_off"
            /\ UNCHANGED <<totalSteps, avgSteps>>
       ELSE /\ idx' = 0
            /\ pc' = "idle"
            /\ totalSteps' = 0
            /\ avgSteps' = 0
  /\ UNCHANGED <<argSpeed, got, val>>
  /\ UNCHANGED <<steps, prevSteps, speed, direction, debounceElapsed, timeElapsed, fpwm>>

\* ------------------------------------------------------------ moveToLimit
CallMoveToLimit(sp) ==
  /\ pc = "idle"
  /\ pc' = "mtl_rst"
  /\ idx' = 0
  /\ argSpeed' = sp
  /\ UNCHANGED <<totalSteps, avgSteps, got, val>>
  /\ UNCHANGED shared

\* actuators[i].steps = 0, one byte per step, then actuators[i].prevSteps = 0
moveToLimit_reset(k) ==
  /\ pc = "mtl_rst"
  /\ k \in NextBytes
  /\ steps' = [steps EXCEPT ![idx] = ClearByte(@, k)]
  /\ IF ~LastByte(k)
       THEN /\ got' = got \cup {k}
            /\ UNCHANGED <<pc, idx, prevSteps>>
       ELSE /\ got' = {}
            /\ prevSteps' = [prevSteps EXCEPT ![idx] = 0]
            /\ IF idx + 1 < NUMBER_OF_ACTUATORS
                 THEN /\ idx' = idx + 1
                      /\ UNCHANGED pc
                 ELSE /\ idx' = 0
                      /\ pc' = "mtl_snap"
  /\ UNCHANGED <<totalSteps, avgSteps, argSpeed, val>>
  /\ UNCHANGED <<speed, direction, debounceElapsed, timeElapsed, fpwm, rpwm>>

\* actuators[i].prevSteps = actuators[i].steps, steps[i] read a byte per step
moveToLimit_snapshot(k) ==
  /\ pc = "mtl_snap"
  /\ k \in NextBytes
  /\ IF ~LastByte(k)
       THEN /\ got' = got \cup {k}
            /\ val' = Loaded(k)
            /\ UNCHANGED <<pc, idx, prevSteps>>
       ELSE /\ got' = {}
            /\ val' = 0
            /\ prevSteps' = [prevSteps EXCEPT ![idx] = Loaded(k)]
            /\ IF idx + 1 < NUMBER_OF_ACTUATORS
                 THEN /\ idx' = idx + 1
                      /\ UNCHANGED pc
                 ELSE /\ idx' = 0
                      /\ pc' = "mtl_timer"
  /\ UNCHANGED <<totalSteps, avgSteps, argSpeed>>
  /\ UNCHANGED <<steps, speed, direction, debounceElapsed, timeElapsed, fpwm, rpwm>>

\* timeElapsed = 0, and the first test of timeElapsed < 200: the code makes it
\* within microseconds of the assignment, so it is true and the body runs
moveToLimit_timer ==
  /\ pc = "mtl_timer"
  /\ timeElapsed' = 0
  /\ pc' = "mtl_wF"
  /\ UNCHANGED <<idx, totalSteps, avgSteps, argSpeed, got, val>>
  /\ UNCHANGED <<steps, prevSteps, speed, direction, debounceElapsed, fpwm, rpwm>>

\* while (timeElapsed < 200), tested after a pass of the body: into the body
\* again, or on to haveStepsChanged()
moveToLimit_dwell ==
  /\ pc = "mtl_dwell"
  /\ pc' = IF timeElapsed < DWELL_MS THEN "mtl_wF" ELSE "mtl_chk"
  /\ idx' = 0
  /\ UNCHANGED <<totalSteps, avgSteps, argSpeed, got, val>>
  /\ UNCHANGED shared

\* the forward output driven under Reverse
LimitForwardOnReverse(dir, sp) == IF dir = -1 THEN sp ELSE 0

\* direction == 1 ? speed : 0
LimitForward(dir, sp) == IF dir = 1 THEN sp ELSE 0
\* direction == -1 ? speed : 0
LimitReverse(dir, sp) == IF dir = -1 THEN sp ELSE 0

\* analogWrite(FPWM[i], direction == 1 ? speed : 0)
moveToLimit_writeF ==
  /\ pc = "mtl_wF"
  /\ fpwm' = [fpwm EXCEPT ![idx] = LimitForward(direction, argSpeed)]
  /\ pc' = "mtl_wR"
  /\ UNCHANGED <<idx, totalSteps, avgSteps, argSpeed, got, val>>
  /\ UNCHANGED <<steps, prevSteps, speed, direction, debounceElapsed, timeElapsed, rpwm>>

\* analogWrite(RPWM[i], direction == -1 ? speed : 0), then the next actuator
\* or back to the loop condition
moveToLimit_writeR ==
  /\ pc = "mtl_wR"
  /\ rpwm' = [rpwm EXCEPT ![idx] = LimitReverse(direction, argSpeed)]
  /\ IF idx + 1 < NUMBER_OF_ACTUATORS
       THEN /\ idx' = idx + 1
            /\ pc' = "mtl_wF"
       ELSE /\ idx' = 0
            /\ pc' = "mtl_dwell"
  /\ UNCHANGED <<totalSteps, avgSteps, argSpeed, got, val>>
  /\ UNCHANGED <<steps, prevSteps, speed, direction, debounceElapsed, timeElapsed, fpwm>>

\* only an increase counted as a change
ChangedUpward(prev, cur) == prev < cur
\* steps compared with 0 instead of the snapshot
ChangedFromZero(prev, cur) == cur # 0
\* a change of one step tolerated
ChangedByMore(prev, cur) == prev - cur > 1 \/ cur - prev > 1

\* actuators[i].prevSteps != actuators[i].steps
Changed(prev, cur) == prev # cur

\* haveStepsChanged(): actuators[i].prevSteps != actuators[i].steps, steps[i]
\* read a byte per step; true at the first actuator that differs (another
\* iteration), false after the last (moveToLimit returns)
haveStepsChanged(k) ==
  /\ pc = "mtl_chk"
  /\ k \in NextBytes
  /\ IF ~LastByte(k)
       THEN /\ got' = got \cup {k}
            /\ val' = Loaded(k)
            /\ UNCHANGED <<pc, idx, argSpeed>>
       ELSE /\ got' = {}
            /\ val' = 0
            /\ IF Changed(prevSteps[idx], Loaded(k))
                 THEN /\ idx' = 0
                      /\ pc' = "mtl_snap"
                      /\ UNCHANGED argSpeed
                 ELSE IF idx + 1 < NUMBER_OF_ACTUATORS
                        THEN /\ idx' = idx + 1
                             /\ UNCHANGED <<pc, argSpeed>>
                        ELSE /\ idx' = 0
                             /\ pc' = "idle"
                             /\ argSpeed' = 0
  /\ UNCHANGED <<totalSteps, avgSteps>>
  /\ UNCHANGED shared

\* ------------------------------------------------------------ observers
NoVerdict ==
  [res |-> "none", win |-> FALSE, moved |-> FALSE,
   late |-> [n \in Actuators |-> FALSE],
   during |-> [n \in Actuators |-> FALSE], quiet |-> FALSE, sp |-> 0]

\* the dwell window is open: timeElapsed was zeroed and has not reached 200
InWindow == pc \in {"mtl_dwell", "mtl_wF", "mtl_wR"} /\ timeElapsed < DWELL_MS
InIteration ==
  pc \in {"mtl_snap", "mtl_timer", "mtl_dwell", "mtl_wF", "mtl_wR", "mtl_chk"}
\* this iteration's snapshot of steps[n] is in prevSteps[n]
SnapTaken(n) ==
  \/ pc \in {"mtl_timer", "mtl_dwell", "mtl_wF", "mtl_wR", "mtl_chk"}
  \/ pc = "mtl_snap" /\ idx > n
\* the check has begun to read steps[n]
CheckBegun(n) == pc = "mtl_chk" /\ (idx > n \/ (idx = n /\ got # {}))
\* the store of 0 to steps[n] has moved some bytes and not yet all
StoreInProgress(n) == pc = "mtl_rst" /\ idx = n /\ got # {}

Handler(n) == IF n = 0 THEN counter_0 ELSE counter_1

\* ------------------------------------------------------------ the system
InitWith(s0, d0) ==
  /\ steps = s0
  /\ prevSteps = [n \in Actuators |-> 0]
  /\ speed = [n \in Actuators |-> 0]
  /\ direction = d0
  /\ debounceElapsed = [n \in Actuators |-> 0]
  /\ timeElapsed = 0
  /\ fpwm = [n \in Actuators |-> 0]
  /\ rpwm = [n \in Actuators |-> 0]
  /\ pc = "idle"
  /\ idx = 0
  /\ totalSteps = 0
  /\ avgSteps = 0
  /\ argSpeed = 0
  /\ got = {}
  /\ val = 0
  /\ nAccepted = 0
  /\ nCalls = 0
  /\ counted = s0
  /\ edgeSeen = [n \in Actuators |-> FALSE]
  /\ sinceAccept = [n \in Actuators |-> 0]
  /\ hadAccept = [n \in Actuators |-> FALSE]
  /\ scen = 0
  /\ winEdge = FALSE
  /\ iterMoved = FALSE
  /\ lateMoved = [n \in Actuators |-> FALSE]
  /\ verdict = NoVerdict
  /\ checkMoved = [n \in Actuators |-> FALSE]
  /\ quietCheck = FALSE
  /\ tickSteps = [n \in Actuators |-> 0]
  /\ settled = "no"
  /\ returned = "none"
  /\ millisNow = 0
  /\ lastDebounceTime = [n \in Actuators |-> 0]

\* setup(): every field zero, direction 0, the outputs low
Init == InitWith([n \in Actuators |-> 0], 0)

\* the time steps of the full system: half a dwell window
TickSteps == {DWELL_MS \div 2}

ClockTick(dt) ==
  /\ Tick(dt)
  /\ UNCHANGED <<nAccepted, nCalls, counted, pulseObs, homingObs, settled, returned>>
  /\ UNCHANGED <<checkObs, tickSteps, wrapClock>>

\* a rising edge of hall sensor n
Irq(n) ==
  /\ Accepts(n) => nAccepted < MaxAccepted
  /\ Handler(n)
  /\ nAccepted' = IF Accepts(n) THEN nAccepted + 1 ELSE nAccepted
  /\ counted' = IF Accepts(n) THEN [counted EXCEPT ![n] = @ + direction]
                              ELSE counted
  /\ winEdge' = (winEdge \/ InWindow)
  /\ iterMoved' = (iterMoved \/ (Accepts(n) /\ direction # 0 /\ InIteration))
  /\ lateMoved' = IF Accepts(n) /\ direction # 0 /\ SnapTaken(n) /\ ~CheckBegun(n)
                    THEN [lateMoved EXCEPT ![n] = TRUE]
                    ELSE lateMoved
  /\ settled' = IF Accepts(n) THEN "no" ELSE settled
  /\ UNCHANGED <<nCalls, pulseObs, verdict, returned>>
  /\ checkMoved' = IF Accepts(n) /\ direction # 0 /\ CheckBegun(n)
                     THEN [checkMoved EXCEPT ![n] = TRUE]
                     ELSE checkMoved
  /\ quietCheck' = (quietCheck /\ ~Accepts(n))
  /\ UNCHANGED <<tickSteps, wrapClock>>

DoSetDirection(d) ==
  /\ SetDirection(d)
  /\ settled' = IF d = direction THEN settled ELSE "no"
  /\ returned' = "none"
  /\ verdict' = NoVerdict
  /\ UNCHANGED <<nAccepted, nCalls, counted, pulseObs, winEdge, iterMoved, lateMoved>>
  /\ UNCHANGED <<checkObs, tickSteps, wrapClock>>

DoCallDrive ==
  /\ nCalls < MaxCalls
  /\ CallDrive
  /\ nCalls' = nCalls + 1
  /\ settled' = IF settled = "yes" THEN "yes" ELSE "run"
  /\ returned' = "none"
  /\ verdict' = NoVerdict
  /\ UNCHANGED <<nAccepted, counted, pulseObs, winEdge, iterMoved, lateMoved>>
  /\ tickSteps' = steps
  /\ UNCHANGED <<checkObs, wrapClock>>

DriveSum(k) ==
  /\ driveActuators_sum(k)
  /\ UNCHANGED <<nAccepted, nCalls, counted, pulseObs, homingObs, settled, returned>>
  /\ UNCHANGED <<checkObs, tickSteps, wrapClock>>

DriveOffset(k) ==
  /\ driveActuators_offset(k)
  /\ UNCHANGED <<nAccepted, nCalls, counted, pulseObs, homingObs, settled, returned>>
  /\ UNCHANGED <<checkObs, tickSteps, wrapClock>>

DriveWrite1 ==
  /\ driveActuators_write1
  /\ UNCHANGED <<nAccepted, nCalls, counted, pulseObs, homingObs, settled, returned>>
  /\ UNCHANGED <<checkObs, tickSteps, wrapClock>>

DriveWrite2 ==
  /\ driveActuators_write2
  /\ returned' = IF pc' = "idle" THEN "drive" ELSE returned
  /\ settled' = IF pc' = "idle" /\ settled = "run" THEN "yes" ELSE settled
  /\ UNCHANGED <<nAccepted, nCalls, counted, pulseObs, homingObs>>
  /\ tickSteps' = IF pc' = "idle" THEN [n \in Actuators |-> 0] ELSE tickSteps
  /\ UNCHANGED <<checkObs, wrapClock>>

DoCallMoveToLimit(sp) ==
  /\ nCalls < MaxCalls
  /\ CallMoveToLimit(sp)
  /\ nCalls' = nCalls + 1
  /\ settled' = "no"
  /\ returned' = "none"
  /\ verdict' = NoVerdict
  /\ UNCHANGED <<nAccepted, counted, pulseObs, winEdge, iterMoved, lateMoved>>
  /\ UNCHANGED <<checkObs, tickSteps, wrapClock>>

LimitReset(k) ==
  /\ moveToLimit_reset(k)
  /\ counted' = IF got = {} THEN [counted EXCEPT ![idx] = 0] ELSE counted
  /\ UNCHANGED <<nAccepted, nCalls, pulseObs, homingObs, settled, returned>>
  /\ UNCHANGED <<checkObs, tickSteps, wrapClock>>

LimitSnapshot(k) ==
  /\ moveToLimit_snapshot(k)
  /\ IF idx = 0 /\ got = {}
       THEN /\ iterMoved' = FALSE
            /\ winEdge' = FALSE
            /\ verdict' = NoVerdict
       ELSE UNCHANGED <<iterMoved, winEdge, verdict>>
  /\ lateMoved' = IF LastByte(k) THEN [lateMoved EXCEPT ![idx] = FALSE]
                                 ELSE lateMoved
  /\ UNCHANGED <<nAccepted, nCalls, counted, pulseObs, settled, returned>>
  /\ UNCHANGED <<checkObs, tickSteps, wrapClock>>

LimitTimer ==
  /\ moveToLimit_timer
  /\ winEdge' = FALSE
  /\ UNCHANGED <<nAccepted, nCalls, counted, pulseObs, iterMoved, lateMoved, verdict,
                 settled, returned>>
  /\ UNCHANGED <<checkObs, tickSteps, wrapClock>>

LimitDwell ==
  /\ moveToLimit_dwell
  /\ UNCHANGED <<nAccepted, nCalls, counted, pulseObs, homingObs, settled, returned>>
  /\ UNCHANGED <<checkObs, tickSteps, wrapClock>>

LimitWriteF ==
  /\ moveToLimit_writeF
  /\ UNCHANGED <<nAccepted, nCalls, counted, pulseObs, homingObs, settled, returned>>
  /\ UNCHANGED <<checkObs, tickSteps, wrapClock>>

LimitWriteR ==
  /\ moveToLimit_writeR
  /\ UNCHANGED <<nAccepted, nCalls, counted, pulseObs, homingObs, settled, returned>>
  /\ UNCHANGED <<checkObs, tickSteps, wrapClock>>

LimitCheck(k) ==
  /\ haveStepsChanged(k)
  /\ IF pc' = "mtl_chk"
       THEN UNCHANGED <<verdict, winEdge, iterMoved, lateMoved>>
       ELSE /\ verdict' = [res |-> IF pc' = "idle" THEN "done" ELSE "again",
                           win |-> winEdge, moved |-> iterMoved,
                           late |-> lateMoved, during |-> checkMoved,
                           quiet |-> quietCheck, sp |-> argSpeed]
            /\ winEdge' = FALSE
            /\ iterMoved' = FALSE
            /\ lateMoved' = [n \in Actuators |-> FALSE]
  /\ returned' = IF pc' = "idle" THEN "limit" ELSE returned
  /\ UNCHANGED <<nAccepted, nCalls, counted, pulseObs, settled>>
  /\ IF pc' = "mtl_chk"
       THEN UNCHANGED checkObs
       ELSE /\ checkMoved' = [n \in Actuators |-> FALSE]
            /\ quietCheck' = TRUE
  /\ UNCHANGED <<tickSteps, wrapClock>>

Next ==
  \/ \E dt \in TickSteps : ClockTick(dt)
  \/ \E n \in Actuators : Irq(n)
  \/ \E d \in Directions : DoSetDirection(d)
  \/ DoCallDrive
  \/ \E k \in ByteIdx : DriveSum(k)
  \/ \E k \in ByteIdx : DriveOffset(k)
  \/ DriveWrite1
  \/ DriveWrite2
  \/ \E sp \in SpeedArgs : DoCallMoveToLimit(sp)
  \/ \E k \in ByteIdx : LimitReset(k)
  \/ \E k \in ByteIdx : LimitSnapshot(k)
  \/ LimitTimer
  \/ LimitDwell
  \/ LimitWriteF
  \/ LimitWriteR
  \/ \E k \in ByteIdx : LimitCheck(k)

Spec == Init /\ [][Next]_vars

\* ------------------------------------------------------------ the handlers alone
\* The handlers against the clock at 1 ms, the main loop between calls.
PulseTicks == {1}

PulseTick(dt) ==
  /\ Tick(dt)
  /\ sinceAccept' = [n \in Actuators |-> Min(sinceAccept[n] + dt, MaxElapsed)]
  /\ UNCHANGED <<nAccepted, nCalls, counted, edgeSeen, hadAccept, scen,
                 homingObs, settled, returned>>
  /\ UNCHANGED <<checkObs, tickSteps, wrapClock>>

PulseEdge(n) ==
  /\ Accepts(n) => nAccepted < MaxAccepted
  /\ Handler(n)
  /\ nAccepted' = IF Accepts(n) THEN nAccepted + 1 ELSE nAccepted
  /\ counted' = IF Accepts(n) THEN [counted EXCEPT ![n] = @ + direction]
                              ELSE counted
  /\ edgeSeen' = [edgeSeen EXCEPT ![n] = ~@]
  /\ sinceAccept' = IF Accepts(n) THEN [sinceAccept EXCEPT ![n] = 0]
                                  ELSE sinceAccept
  /\ hadAccept' = IF Accepts(n) THEN [hadAccept EXCEPT ![n] = TRUE]
                                ELSE hadAccept
  /\ scen' = IF n # 0 THEN scen
             ELSE IF Accepts(n)
               THEN (IF scen = 2 /\ sinceAccept[n] = 10 THEN 3 ELSE 1)
               ELSE (IF scen = 1 /\ sinceAccept[n] = 5 THEN 2 ELSE scen)
  /\ settled' = IF Accepts(n) THEN "no" ELSE settled
  /\ UNCHANGED <<nCalls, homingObs, returned>>
  /\ UNCHANGED <<checkObs, tickSteps, wrapClock>>

NextPulse ==
  \/ \E dt \in PulseTicks : PulseTick(dt)
  \/ \E n \in Actuators : PulseEdge(n)
  \/ \E d \in Directions : DoSetDirection(d)

SpecPulse == Init /\ [][NextPulse]_vars

\* ------------------------------------------------------------ driveActuators alone
\* driveActuators with no interrupt, from any of these step counts
StepSamples == {-3, -1, 0, 1, 2, 80, 100, 26216, 65496}

InitDrive ==
  \E s0 \in [Actuators -> StepSamples], d0 \in Directions : InitWith(s0, d0)

NextDrive ==
  \/ DoCallDrive
  \/ \E k \in ByteIdx : DriveSum(k)
  \/ \E k \in ByteIdx : DriveOffset(k)
  \/ DriveWrite1
  \/ DriveWrite2

SpecDrive == InitDrive /\ [][NextDrive]_vars

\* ------------------------------------------------------------ the wrapping clock
\* The handlers with millis() and lastDebounceTime[i] as the counters they
\* are: unsigned, modulo ClockModulus.

\* the difference taken as a distance, not modulo the counter's range
ElapsedAbs(n) ==
  IF millisNow >= lastDebounceTime[n] THEN millisNow - lastDebounceTime[n]
                                      ELSE lastDebounceTime[n] - millisNow

\* millis() - lastDebounceTime[n], an unsigned difference
ElapsedWrap(n) == (millisNow - lastDebounceTime[n]) % ClockModulus

\* millis() - lastDebounceTime[n] > FALSE_PULSE_DELAY
AcceptsWrap(n) == ElapsedWrap(n) > FALSE_PULSE_DELAY

\* the body shared by counter_0 and counter_1
CounterWrap(n) ==
  /\ IF AcceptsWrap(n)
       THEN /\ lastDebounceTime' = [lastDebounceTime EXCEPT ![n] = millisNow]
            /\ steps' = [steps EXCEPT ![n] = @ + direction]
       ELSE UNCHANGED <<lastDebounceTime, steps>>
  /\ UNCHANGED <<millisNow, prevSteps, speed, direction, debounceElapsed,
                 timeElapsed, fpwm, rpwm>>
  /\ UNCHANGED locals

\* the millisecond counter advances by one and wraps
TickWrap ==
  /\ pc = "idle"
  /\ millisNow' = (millisNow + 1) % ClockModulus
  /\ UNCHANGED <<lastDebounceTime, shared, locals>>

WrapTick ==
  /\ TickWrap
  /\ sinceAccept' = [n \in Actuators |-> Min(sinceAccept[n] + 1, MaxElapsed)]
  /\ UNCHANGED <<nAccepted, nCalls, counted, edgeSeen, hadAccept, scen,
                 homingObs, checkObs, tickSteps, settled, returned>>

WrapEdge(n) ==
  /\ AcceptsWrap(n) => nAccepted < MaxAccepted
  /\ CounterWrap(n)
  /\ nAccepted' = IF AcceptsWrap(n) THEN nAccepted + 1 ELSE nAccepted
  /\ counted' = IF AcceptsWrap(n) THEN [counted EXCEPT ![n] = @ + direction]
                                  ELSE counted
  /\ edgeSeen' = [edgeSeen EXCEPT ![n] = ~@]
  /\ sinceAccept' = IF AcceptsWrap(n) THEN [sinceAccept EXCEPT ![n] = 0]
                                      ELSE sinceAccept
  /\ hadAccept' = IF AcceptsWrap(n) THEN [hadAccept EXCEPT ![n] = TRUE]
                                    ELSE hadAccept
  /\ UNCHANGED <<nCalls, scen, homingObs, checkObs, tickSteps, settled, returned>>

\* the handlers under any one direction
InitWrap ==
  \E d0 \in Directions : InitWith([n \in Actuators |-> 0], d0)

NextWrap ==
  \/ WrapTick
  \/ \E n \in Actuators : WrapEdge(n)

SpecWrap == InitWrap /\ [][NextWrap]_vars

\* ------------------------------------------------------------ moveToLimit alone
\* moveToLimit under any one direction, with the sensors and the clock.  The
\* main loop keeps running (it has nothing to wait for but the clock) and the
\* clock keeps advancing: the busy-wait meets a new clock value again and
\* again.
InitHoming ==
  \E d0 \in Directions : InitWith([n \in Actuators |-> 0], d0)

HomingStep ==
  \/ \E k \in ByteIdx : LimitReset(k)
  \/ \E k \in ByteIdx : LimitSnapshot(k)
  \/ LimitTimer
  \/ LimitDwell
  \/ LimitWriteF
  \/ LimitWriteR
  \/ \E k \in ByteIdx : LimitCheck(k)

HomingClock == \E dt \in TickSteps : ClockTick(dt)

NextHoming ==
  \/ HomingClock
  \/ \E n \in Actuators : Irq(n)
  \/ \E sp \in SpeedArgs : DoCallMoveToLimit(sp)
  \/ HomingStep

SpecHoming ==
  InitHoming /\ [][NextHoming]_vars /\ WF_vars(HomingStep) /\ SF_vars(HomingClock)

\* ------------------------------------------------------------ claims
Abs(x) == IF x < 0 THEN -x ELSE x
AllOutputsZero == \A n \in Actuators : fpwm[n] = 0 /\ rpwm[n] = 0

\* C1: for every actuator, at most one of its forward and reverse outputs is
\* non-zero in every reachable state, the states between the two output
\* writes of driveActuators and of moveToLimit included.
C1_MutuallyExclusive == \A n \in Actuators : fpwm[n] = 0 \/ rpwm[n] = 0

\* C2: after every driveActuators tick each actuators[i].speed is in 0..255,
\* for every direction and every pair of step counts.
C2_SpeedInRange ==
  returned = "drive" => \A n \in Actuators : speed[n] \in 0 .. PWM_MAX

\* C3: two edges that the handler of one actuator accepts are at least
\* FALSE_PULSE_DELAY ms apart.
C3_AcceptedEdgesApart ==
  [][\A n \in Actuators :
       (edgeSeen'[n] # edgeSeen[n] /\ nAccepted' > nAccepted /\ hadAccept[n])
         => sinceAccept[n] >= FALSE_PULSE_DELAY]_vars
\* two edges were accepted on one actuator
C3_TwoAccepted ==
  \E n \in Actuators : hadAccept[n] /\ nAccepted = 2 /\ counted[n] = 2

\* C4 as stated: the check of moveToLimit ends the loop exactly when no sensor
\* edge arrived on any actuator during the dwell window before it.
C4_WindowEdgesDecide ==
  verdict.res # "none" => (verdict.win <=> verdict.res = "again")
\* C4 as amended: a check ends the loop if no edge was accepted under a
\* non-zero direction since the iteration's snapshot began, and it starts
\* another iteration if some actuator accepted such an edge after its
\* snapshot was taken and before the check began to read its steps.
C4_AcceptedMovesDecide ==
  verdict.res # "none" =>
    /\ ~verdict.moved => verdict.res = "done"
    /\ (\E n \in Actuators : verdict.late[n]) => verdict.res = "again"
\* a window with an edge that moved nothing ended the loop
C4_QuietEdgeEndsLoop ==
  verdict.res = "done" /\ verdict.win /\ ~verdict.moved

\* C5: at every moment steps[i] is the sum of the direction values in force
\* at the edges accepted on actuator i since the last write of 0 to steps[i]
\* (or since start-up).
C5_StepsEqualCounted ==
  \A n \in Actuators : ~StoreInProgress(n) => steps[n] = counted[n]

\* What a handler invocation on actuator n does when the edge is due (the
\* debounce timer restarts, steps[n] moves by direction, nothing else
\* changes) and when it is not (nothing changes).
EdgeRule(n, due) ==
  IF due
    THEN /\ debounceElapsed' = [debounceElapsed EXCEPT ![n] = 0]
         /\ steps' = [steps EXCEPT ![n] = @ + direction]
         /\ UNCHANGED <<prevSteps, speed, direction, timeElapsed, fpwm, rpwm>>
         /\ UNCHANGED locals
    ELSE /\ UNCHANGED shared
         /\ UNCHANGED locals

C7_StopZeroesOutputs ==
  direction = 0 =>
    /\ returned \in {"drive", "limit"} => AllOutputsZero
    /\ pc = "mtl_chk" => AllOutputsZero
    /\ \A n \in Actuators :
         (pc \in {"drv_off", "drv_w1", "drv_w2", "mtl_wF", "mtl_wR"} /\ idx > n)
           => fpwm[n] = 0 /\ rpwm[n] = 0
\* a tick under Stop computed a non-zero speed and returned
C7_StopTickDone ==
  direction = 0 /\ returned = "drive" /\ speed[0] = BASE_SPEED /\ nCalls = 2

\* C8: a driveActuators tick with no interrupt leaves
\* speed[i] = min(|BASE_SPEED + (avgSteps - steps[i]) * OFFSET_MULTIPLIER *
\* direction|, 255), avgSteps the truncated average, with speed[i] on the
\* output direction selects and 0 on the other.
C8_ExactSpeed ==
  returned = "drive" =>
    \A n \in Actuators :
      /\ speed[n] =
           Min(Abs(BASE_SPEED
                   + (TruncDiv(steps[0] + steps[1], NUMBER_OF_ACTUATORS) - steps[n])
                     * OFFSET_MULTIPLIER * direction),
               PWM_MAX)
      /\ fpwm[n] = (IF direction = 1 THEN speed[n] ELSE 0)
      /\ rpwm[n] = (IF direction = -1 THEN speed[n] ELSE 0)

\* the tick has computed avgSteps from the step counts in the state
AvgComputed == pc \in {"drv_off", "drv_w1", "drv_w2"}
StepSum == steps[0] + steps[1]

\* C9 as stated: avgSteps * N <= sum(steps) < (avgSteps + 1) * N for any step
\* counts, negative ones included.
C9_FloorLaw ==
  AvgComputed =>
    /\ avgSteps * NUMBER_OF_ACTUATORS <= StepSum
    /\ StepSum < (avgSteps + 1) * NUMBER_OF_ACTUATORS
\* C9 as amended: avgSteps is the quotient truncated toward zero: the stated
\* law for a sum >= 0, and (avgSteps - 1) * N < sum <= avgSteps * N for a
\* negative sum.
C9_TruncationLaw ==
  AvgComputed =>
    IF StepSum >= 0
      THEN /\ avgSteps * NUMBER_OF_ACTUATORS <= StepSum
           /\ StepSum < (avgSteps + 1) * NUMBER_OF_ACTUATORS
      ELSE /\ (avgSteps - 1) * NUMBER_OF_ACTUATORS < StepSum
           /\ StepSum <= avgSteps * NUMBER_OF_ACTUATORS
\* an average of a negative odd sum
C9_NegativeOddSum == AvgComputed /\ StepSum < 0 /\ StepSum % 2 = 1

\* C10: once a driveActuators call has run, further calls change no speed and
\* no output while no edge is accepted and direction is not changed.
C10_RepeatChangesNothing ==
  [][(settled = "yes" /\ settled' = "yes")
       => (speed' = speed /\ fpwm' = fpwm /\ rpwm' = rpwm)]_vars
\* a repeated call, under way, with the actuators out of step
C10_SecondCallWriting ==
  /\ settled = "yes" /\ pc = "drv_w2" /\ idx = 1
  /\ direction = 1 /\ steps[0] # steps[1]

\* a step of moveToLimit's reset loop
ResetStep == pc = "mtl_rst" /\ <<got, idx, pc>>' # <<got, idx, pc>>

\* C11: once the reset of a moveToLimit call is done, and so at each of its
\* checks, steps[i] is the count of the edges accepted on actuator i since the
\* reset wrote 0 to it; the reset changes neither direction nor the debounce
\* timers.
C11_CountsSinceReset ==
  /\ [](InIteration => \A n \in Actuators : steps[n] = counted[n])
  /\ [][ResetStep => (direction' = direction /\ debounceElapsed' = debounceElapsed)]_vars

\* the step of haveStepsChanged() that decides
CheckEnds == pc = "mtl_chk" /\ pc' # "mtl_chk"

\* C12: moveToLimit returns only from a check at which every actuator's steps
\* equals the snapshot prevSteps of the same iteration (an edge accepted on an
\* actuator after the check began to read its steps is the next window's);
\* it starts another iteration only when some actuator's count differs, and
\* one such actuator keeps the loop running, the other stalled or not.
C12_ReturnsWhenAllQuiet ==
  [][CheckEnds =>
       IF pc' = "idle"
         THEN \A n \in Actuators : steps[n] = prevSteps[n] \/ checkMoved[n]
         ELSE \E n \in Actuators : steps[n] # prevSteps[n]]_vars
\* actuator 1 stalled from the reset on, actuator 0 moved: another iteration
C12_StalledOneMovingOther ==
  /\ verdict.res = "again" /\ verdict.late[0] /\ ~verdict.late[1]
  /\ pc = "mtl_snap" /\ idx = 0 /\ got = {}
  /\ steps[1] = 0 /\ prevSteps[1] = 0 /\ counted[1] = 0 /\ steps[0] # prevSteps[0]

\* C13: every value given to a forward or reverse output, by driveActuators
\* and by moveToLimit for any speed argument, is in 0..255.
C13_OutputsInRange ==
  \A n \in Actuators : fpwm[n] \in 0 .. PWM_MAX /\ rpwm[n] \in 0 .. PWM_MAX

\* C14: a check that ends when another check has already completed since the
\* last accepted edge returns, so that moveToLimit returns by the second check
\* after the last accepted edge, and every call returns once edges are no
\* longer accepted (a run accepts MaxAccepted edges at most); a check after a
\* window in which some actuator's steps changed never returns.
C14_ReturnsByQuietCheck ==
  /\ [][(CheckEnds /\ quietCheck) => pc' = "idle"]_vars
  /\ [][(CheckEnds /\ \E n \in Actuators : lateMoved[n]) => pc' # "idle"]_vars
  /\ (pc # "idle") ~> (pc = "idle")
\* an edge was accepted after the reset, the next check started another
\* iteration and the check after that one returned
C14_SecondCheckReturned ==
  /\ returned = "limit" /\ verdict.res = "done" /\ verdict.quiet
  /\ direction # 0 /\ \E n \in Actuators : counted[n] # 0 /\ steps[n] = prevSteps[n]

\* how far actuator n is ahead of the average in the direction of travel
\* (negative: behind), for the step counts in the state
LeadOf(n) == (steps[n] - AvgOf(StepSum)) * direction

\* C15: in Forward or Reverse a driveActuators tick gives an actuator ahead of
\* avgSteps in the direction of travel a speed of BASE_SPEED at most, and one
\* behind it a speed of BASE_SPEED at least, whatever the lead or lag.
C15_AheadSlowerBehindFaster ==
  (returned = "drive" /\ direction # 0) =>
    \A n \in Actuators :
      /\ LeadOf(n) > 0 => speed[n] <= BASE_SPEED
      /\ LeadOf(n) < 0 => speed[n] >= BASE_SPEED

\* C16: in Forward or Reverse, with no interrupt during the tick, the actuator
\* that is behind in the direction of travel (smaller steps when Forward,
\* larger steps when Reverse) gets a speed no lower than the one ahead, for
\* all step counts.
C16_BehindNotSlower ==
  (returned = "drive" /\ direction # 0) =>
    \A a, b \in Actuators :
      (steps[a] - steps[b]) * direction < 0 => speed[a] >= speed[b]

\* driveActuators is about to read the last byte of steps[idx]
ReadEnding == pc \in {"drv_sum", "drv_off"} /\ Cardinality(got) = LongBytes - 1
\* the value that read then yields
ReadValue == Loaded(CHOOSE k \in ByteIdx : k \notin got)

\* C17: every value of steps[i] that a driveActuators tick reads, for the sum
\* and for the offset, differs from steps[i] at the start of the tick by 1 at
\* most (the tick takes less than a debounce interval).
C17_ReadsWithinOnePulse ==
  ReadEnding => Abs(ReadValue - tickSteps[idx]) <= 1

\* the outputs of actuator n: the one direction selects, and the other one
SelectedOutput(n) == IF direction = 1 THEN fpwm[n] ELSE rpwm[n]
OtherOutput(n) == IF direction = 1 THEN rpwm[n] ELSE fpwm[n]

\* C18: moveToLimit never writes 0 to the output direction selects, and when
\* it returns under Forward or Reverse that output of every actuator carries
\* the speed the caller passed and the other output is 0.
C18_ReturnsStillDriving ==
  /\ []((returned = "limit" /\ direction # 0) =>
          \A n \in Actuators :
            SelectedOutput(n) = verdict.sp /\ verdict.sp # 0 /\ OtherOutput(n) = 0)
  /\ [][(pc = "mtl_wF" /\ pc' # pc /\ direction = 1) => fpwm'[idx] # 0]_vars
  /\ [][(pc = "mtl_wR" /\ pc' # pc /\ direction = -1) => rpwm'[idx] # 0]_vars
\* moveToLimit(300) has returned under Reverse, after a Forward tick of
\* driveActuators
C18_ReturnedInReverse ==
  /\ returned = "limit" /\ direction = -1 /\ verdict.sp = 300 /\ nCalls = 2
  /\ speed[0] = BASE_SPEED /\ rpwm[0] = 300 /\ rpwm[1] = 300

\* C19: with the clock a counter modulo ClockModulus and the elapsed time the
\* unsigned difference, an edge that comes FALSE_PULSE_DELAY ms or less after
\* the actuator's previous accepted edge is not accepted, the clock having
\* wrapped between the two or not.
C19_SpacingAcrossWrap ==
  [][\A n \in Actuators :
       (edgeSeen'[n] # edgeSeen[n] /\ hadAccept[n]
          /\ sinceAccept[n] <= FALSE_PULSE_DELAY)
         => (nAccepted' = nAccepted /\ steps' = steps
             /\ lastDebounceTime' = lastDebounceTime)]_vars
\* actuator 0: an edge accepted (at a clock value above FALSE_PULSE_DELAY, as
\* every first one is), the clock wrapped, and an edge accepted at a clock
\* value below FALSE_PULSE_DELAY, one ms ago
C19_AcceptedAfterWrap ==
  /\ direction = 1 /\ counted[0] = 2 /\ steps[0] = 2 /\ nAccepted = 2
  /\ lastDebounceTime[0] < FALSE_PULSE_DELAY
  /\ millisNow = lastDebounceTime[0] + 1 /\ sinceAccept[0] = 1

=============================================================================
